---- MODULE Spec2Model ----
(***************************************************************************)
(* State-machine model of the hook javascript client: the Auth session     *)
(* manager (auth.js) and the request pipeline of Client (client.js).       *)
(*                                                                         *)
(* JavaScript values are encoded as records of one shape so that any two   *)
(* of them can be compared.  Strings kept in localStorage are encoded as   *)
(* sequences of string tokens; JSON.stringify / JSON.parse / String() /    *)
(* Date parsing translate between values and those token sequences.        *)
(***************************************************************************)
EXTENDS Integers, Sequences, FiniteSets, TLC

(* ----------------------------- bounds ---------------------------------- *)
MaxTime == 1
MaxInflight == 2
MaxFields == 2

(* ------------------------- program constants --------------------------- *)
AUTH_DATA_KEY == "hook-auth-data"
AUTH_TOKEN_KEY == "hook-auth-token"
AUTH_TOKEN_EXPIRATION == "hook-auth-token-expiration"

app_id == "app1"
key == "key1"
endpoint == "http://hook.dev/"

(* --------------------------- JavaScript values ------------------------- *)
\* the `token` member of a response body: absent, or {token: T, expire_at: E}
NoToken == [present |-> FALSE, token |-> "", expire_at |-> 0]
TokenObj(T, E) == [present |-> TRUE, token |-> T, expire_at |-> E]

\* the _id and score members of the user documents a server sends
UserIds == {1, 2}
Scores == {0, 1}
\* the bearer token a server issues to user i
TokenFor(i) == "t" \o ToString(i)
\* the expire_at instants a server sends
ExpireAts == 1 .. MaxTime

\* t is one of "null", "undefined", "false", "zero", "empty", "object"
Prim(tag) == [t |-> tag, _id |-> 0, score |-> 0, token |-> NoToken]
null == Prim("null")
undefined == Prim("undefined")
FalsyValues == {Prim(tag) : tag \in {"null", "undefined", "false", "zero", "empty"}}

\* a user document {_id: i, score: s} with an optional token member
Doc(i, s, tok) == [t |-> "object", _id |-> i, score |-> s, token |-> tok]
Docs == {Doc(i, s, NoToken) : i \in UserIds, s \in Scores}
\* {error: ...} bodies sent with a failure status: objects without _id
ErrorBody == Doc(0, 0, NoToken)
\* bodies of register / login answers
TokenBodies == {Doc(i, 0, TokenObj(TokenFor(i), E)) : i \in UserIds, E \in ExpireAts}

\* the truth value JavaScript gives a value in `if (v)` / `!v`
Truthy(v) == v.t = "object"

(* ------------------------------ strings -------------------------------- *)
\* a string is a sequence of string tokens; getItem gives NoItem for null
NoItem == [present |-> FALSE, v |-> << >>]
Str(s) == [present |-> TRUE, v |-> s]

\* String(E) as setItem stores an expire_at
DateString(E) == <<ToString(E)>>

\* new Date(item).getTime(): new Date(null) is the epoch, an unparsable
\* string gives NaN
NaN == 0 - 1
DateGetTime(item) ==
  IF ~item.present THEN 0
  ELSE IF \E n \in 0 .. (MaxTime + 2) : item.v = <<ToString(n)>>
       THEN CHOOSE n \in 0 .. (MaxTime + 2) : item.v = <<ToString(n)>>
       ELSE NaN

\* a < b on numbers, false when either side is NaN
NumLess(a, b) == a # NaN /\ b # NaN /\ a < b

\* JSON.stringify of a user document
JSONStringifyDoc(d) ==
  <<"_id", ToString(d._id), "score", ToString(d.score)>>
    \o (IF d.token.present
        THEN <<"token", d.token.token, "expire_at">> \o DateString(d.token.expire_at)
        ELSE << >>)

ParseInt(s) == CHOOSE n \in {0} \cup UserIds \cup Scores : ToString(n) = s
ParseExpire(s) == CHOOSE n \in 0 .. (MaxTime + 2) : ToString(n) = s

\* JSON.parse of a persisted user document
JSONParseDoc(s) ==
  Doc(ParseInt(s[2]), ParseInt(s[4]),
      IF Len(s) > 4 THEN TokenObj(s[6], ParseExpire(s[8])) ELSE NoToken)

(* ---------------------------- localStorage ----------------------------- *)
Key(name) == app_id \o "-" \o name
StoreKeys == {Key(AUTH_DATA_KEY), Key(AUTH_TOKEN_KEY), Key(AUTH_TOKEN_EXPIRATION)}
EmptyStore == [k \in StoreKeys |-> NoItem]

getItem(ls, k) == ls[k]
setItem(ls, k, s) == [ls EXCEPT ![k] = Str(s)]
removeItem(ls, k) == [ls EXCEPT ![k] = NoItem]

(* -------------------------------- Auth --------------------------------- *)
\* what a listener called by trigger() finds: the in-memory user and the
\* persisted user document at the moment of the call
Seen(cu, ls) == [currentUser |-> cu, stored |-> getItem(ls, Key(AUTH_DATA_KEY))]
Event(name, payload, seen) == [name |-> name, payload |-> payload, seen |-> seen]

\* an Auth with its store: the in-memory user, localStorage and the events
\* triggered by the call
AuthSt(cu, ls, ev) == [currentUser |-> cu, localStorage |-> ls, triggered |-> ev]

\* constructor hydrating up to and including the instant of expiration
constructor_Inclusive(ls, t) ==
  LET tokenExpiration == DateGetTime(getItem(ls, Key(AUTH_TOKEN_EXPIRATION)))
      cu == getItem(ls, Key(AUTH_DATA_KEY))
  IN  IF cu.present /\ (NumLess(t, tokenExpiration) \/ t = tokenExpiration)
      THEN JSONParseDoc(cu.v)
      ELSE null

\* constructor(client): the currentUser of a new Auth over store ls at `t`
constructor(ls, t) ==
  LET tokenExpiration == DateGetTime(getItem(ls, Key(AUTH_TOKEN_EXPIRATION)))
      cu == getItem(ls, Key(AUTH_DATA_KEY))
  IN  IF cu.present /\ NumLess(t, tokenExpiration)
      THEN JSONParseDoc(cu.v)
      ELSE null

\* setCurrentUser whose falsy branch forgets removeItem(AUTH_TOKEN_KEY)
setCurrentUser_KeepsToken(cu, ls, data) ==
  IF ~Truthy(data)
  THEN AuthSt(data, removeItem(ls, Key(AUTH_DATA_KEY)),
              <<Event("logout", cu, Seen(cu, ls))>>)
  ELSE LET ls1 == setItem(ls, Key(AUTH_DATA_KEY), JSONStringifyDoc(data))
       IN  AuthSt(data, ls1, <<Event("login", data, Seen(data, ls1))>>)

\* setCurrentUser that does not overwrite a document already persisted
setCurrentUser_FirstWins(cu, ls, data) ==
  IF ~Truthy(data)
  THEN AuthSt(data,
              removeItem(removeItem(ls, Key(AUTH_TOKEN_KEY)), Key(AUTH_DATA_KEY)),
              <<Event("logout", cu, Seen(cu, ls))>>)
  ELSE LET ls1 == IF getItem(ls, Key(AUTH_DATA_KEY)).present
                  THEN ls
                  ELSE setItem(ls, Key(AUTH_DATA_KEY), JSONStringifyDoc(data))
       IN  AuthSt(data, ls1, <<Event("login", data, Seen(data, ls1))>>)

\* setCurrentUser whose truthy branch does not persist the document
setCurrentUser_MemoryOnly(cu, ls, data) ==
  IF ~Truthy(data)
  THEN AuthSt(data,
              removeItem(removeItem(ls, Key(AUTH_TOKEN_KEY)), Key(AUTH_DATA_KEY)),
              <<Event("logout", cu, Seen(cu, ls))>>)
  ELSE AuthSt(data, ls, <<Event("login", data, Seen(data, ls))>>)

\* setCurrentUser triggering 'login' before it persists and assigns
setCurrentUser_TriggerFirst(cu, ls, data) ==
  IF ~Truthy(data)
  THEN AuthSt(data,
              removeItem(removeItem(ls, Key(AUTH_TOKEN_KEY)), Key(AUTH_DATA_KEY)),
              <<Event("logout", cu, Seen(cu, ls))>>)
  ELSE AuthSt(data,
              setItem(ls, Key(AUTH_DATA_KEY), JSONStringifyDoc(data)),
              <<Event("login", data, Seen(cu, ls))>>)

setCurrentUser(cu, ls, data) ==
  IF ~Truthy(data)
  THEN AuthSt(data,
              removeItem(removeItem(ls, Key(AUTH_TOKEN_KEY)), Key(AUTH_DATA_KEY)),
              <<Event("logout", cu, Seen(cu, ls))>>)
  ELSE LET ls1 == setItem(ls, Key(AUTH_DATA_KEY), JSONStringifyDoc(data))
       IN  AuthSt(data, ls1, <<Event("login", data, Seen(data, ls1))>>)

isLogged(cu) == cu # null

getToken(ls) == getItem(ls, Key(AUTH_TOKEN_KEY))

\* _registerToken without `delete data.token`
registerToken_KeepsToken(cu, ls, data) ==
  IF data.t \notin {"null", "undefined"} /\ data.token.present
  THEN LET ls1 == setItem(ls, Key(AUTH_TOKEN_KEY), <<data.token.token>>)
           ls2 == setItem(ls1, Key(AUTH_TOKEN_EXPIRATION), DateString(data.token.expire_at))
       IN  setCurrentUser(cu, ls2, data)
  ELSE AuthSt(cu, ls, << >>)

\* _registerToken calling setCurrentUser outside the `if (data.token)`
registerToken_Always(cu, ls, data) ==
  IF data.t \in {"null", "undefined"} THEN AuthSt(cu, ls, << >>)
  ELSE IF data.token.present
  THEN LET ls1 == setItem(ls, Key(AUTH_TOKEN_KEY), <<data.token.token>>)
           ls2 == setItem(ls1, Key(AUTH_TOKEN_EXPIRATION), DateString(data.token.expire_at))
           stripped == [data EXCEPT !.token = NoToken]
       IN  setCurrentUser(cu, ls2, stripped)
  ELSE setCurrentUser(cu, ls, data)

\* _registerToken(data); reading data.token of null or undefined throws
\* inside the promise callback and changes nothing
registerToken(cu, ls, data) ==
  IF data.t \notin {"null", "undefined"} /\ data.token.present
  THEN LET ls1 == setItem(ls, Key(AUTH_TOKEN_KEY), <<data.token.token>>)
           ls2 == setItem(ls1, Key(AUTH_TOKEN_EXPIRATION), DateString(data.token.expire_at))
           stripped == [data EXCEPT !.token = NoToken]
       IN  setCurrentUser(cu, ls2, stripped)
  ELSE AuthSt(cu, ls, << >>)

(* ------------------------ request data (Client) ------------------------ *)
\* the kinds of value a field of `data` can hold
FieldKinds == {"undefined", "null", "scalar", "date", "fileinput", "input",
               "canvas", "blob", "array", "plain"}
\* getTime() of the dates used in payloads, in milliseconds
DateMs == {499, 500}
Field(kind, ms) == [kind |-> kind, ms |-> ms]
Fields == {Field(k, 0) : k \in FieldKinds \ {"date"}} \cup {Field("date", ms) : ms \in DateMs}
FieldName(i) == "f" \o ToString(i)

\* data: undefined, null, a pre-built FormData, or an object with fields
ReqData(tag, fields) == [t |-> tag, fields |-> fields]
NoData == ReqData("undefined", << >>)
EmptyObject == ReqData("object", << >>)
Scalars == ReqData("object", <<Field("scalar", 0)>>)
FieldSeqs == UNION {[1 .. n -> Fields] : n \in 0 .. MaxFields}
AllData == {ReqData(tag, << >>) : tag \in {"undefined", "null", "formdata"}}
             \cup {ReqData("object", fs) : fs \in FieldSeqs}
SimpleData == {NoData, Scalars}
DataTruthy(data) == data.t \in {"formdata", "object"}

(* ------------------------------ payloads ------------------------------- *)
\* what getPayload returns: null, a string or a FormData
Payload(kind, text, form) == [kind |-> kind, text |-> text, form |-> form]
NullPayload == Payload("null", << >>, << >>)
\* a FormData a caller built itself
CallerForm == <<[name |-> "caller", part |-> "string", filename |-> ""]>>

\* the fields that set `worth`
Binary(f) == f.kind \in {"fileinput", "canvas", "blob"}

\* the entry formdata.append adds for a field (none when the field is skipped,
\* is an array, or makes append throw)
FormEntry(i, f) ==
  IF f.kind \in {"scalar", "input"}
  THEN <<[name |-> FieldName(i), part |-> "string", filename |-> ""]>>
  ELSE IF f.kind = "fileinput"
  THEN <<[name |-> FieldName(i), part |-> "file", filename |-> "upload.bin"]>>
  ELSE IF f.kind = "canvas"
  THEN <<[name |-> FieldName(i), part |-> "file", filename |-> "canvas.png"]>>
  ELSE IF f.kind = "blob"
  THEN <<[name |-> FieldName(i), part |-> "file", filename |-> "blob.png"]>>
  ELSE << >>

RECURSIVE FormEntries(_, _)
FormEntries(fields, i) ==
  IF i > Len(fields) THEN << >>
  ELSE FormEntry(i, fields[i]) \o FormEntries(fields, i + 1)

\* Math.round(ms / 1000) for ms >= 0
MathRoundSeconds(ms) == (ms + 500) \div 1000

\* the JSON.stringify replacer and the member it writes for a field
\* the replacer returning `value`, the ISO string Date.prototype.toJSON made
JSONMember_DefaultDate(i, f) ==
  IF f.kind = "undefined" THEN << >>
  ELSE <<FieldName(i),
         IF f.kind = "null" THEN "null"
         ELSE IF f.kind = "scalar" THEN "1"
         ELSE IF f.kind = "date" THEN "\"1970-01-01T00:00:00." \o ToString(f.ms) \o "Z\""
         ELSE IF f.kind = "array" THEN "[]"
         ELSE "{}">>

JSONMember(i, f) ==
  IF f.kind = "undefined" THEN << >>
  ELSE <<FieldName(i),
         IF f.kind = "null" THEN "null"
         ELSE IF f.kind = "scalar" THEN "1"
         ELSE IF f.kind = "date" THEN ToString(MathRoundSeconds(f.ms))
         ELSE IF f.kind = "array" THEN "[]"
         ELSE "{}">>

RECURSIVE JSONMembers(_, _)
JSONMembers(fields, i) ==
  IF i > Len(fields) THEN << >>
  ELSE JSONMember(i, fields[i]) \o JSONMembers(fields, i + 1)

JSONStringify(data) == <<"{">> \o JSONMembers(data.fields, 1) \o <<"}">>

\* encodeURIComponent of a JSON text
EncodeToken(tok) ==
  IF tok = "{" THEN "%7B"
  ELSE IF tok = "}" THEN "%7D"
  ELSE IF tok = "[]" THEN "%5B%5D"
  ELSE IF tok = "{}" THEN "%7B%7D"
  ELSE tok
encodeURIComponent(text) == [i \in 1 .. Len(text) |-> EncodeToken(text[i])]

\* the canvas branch throws when dataURLtoBlob is not loaded
PayloadThrows(method, data, hasDataURLtoBlob) ==
  /\ data.t = "object"
  /\ method # "GET"
  /\ ~hasDataURLtoBlob
  /\ \E i \in 1 .. Len(data.fields) : data.fields[i].kind = "canvas"

worth(data) ==
  \E i \in 1 .. Len(data.fields) : Binary(data.fields[i])

getPayload(method, data, hasDataURLtoBlob) ==
  IF ~DataTruthy(data) THEN NullPayload
  ELSE IF data.t = "formdata" THEN Payload("formdata", << >>, CallerForm)
  ELSE IF method # "GET" /\ worth(data)
  THEN Payload("formdata", << >>, FormEntries(data.fields, 1))
  ELSE LET text == JSONStringify(data)
       IN  IF text = <<"{", "}">> THEN NullPayload
           ELSE IF method = "GET" THEN Payload("string", encodeURIComponent(text), << >>)
           ELSE Payload("string", text, << >>)

\* a payload concatenated to a string
PayloadToString(p) ==
  IF p.kind = "null" THEN <<"null">>
  ELSE IF p.kind = "formdata" THEN <<"[object FormData]">>
  ELSE p.text

(* ------------------------------ requests ------------------------------- *)
Methods == {"GET", "POST", "PUT", "DELETE"}

\* headers are a set of <<name, value>> pairs; assigning replaces
SetHeader(h, name, value) == {p \in h : p[1] # name} \cup {<<name, value>>}
HasHeader(h, name) == \E p \in h : p[1] = name
HeaderValue(h, name) == (CHOOSE p \in h : p[1] = name)[2]

\* getHeaders without the token lookup
getHeaders_AppOnly(ls) ==
  {<<"X-App-Id", <<app_id>>>>, <<"X-App-Key", <<key>>>>}

getHeaders(ls) ==
  LET request_headers == {<<"X-App-Id", <<app_id>>>>, <<"X-App-Key", <<key>>>>}
      auth_token == getToken(ls)
  IN  IF auth_token.present /\ auth_token.v # <<"">>
      THEN SetHeader(request_headers, "X-Auth-Token", auth_token.v)
      ELSE request_headers

Options(mo, blob) == [method_override |-> mo, hasDataURLtoBlob |-> blob]
AllOptions == {Options(mo, blob) : mo \in BOOLEAN, blob \in BOOLEAN}

\* the fetch call request() makes: fetch(url, initObj)
Fetch(method, headers, url, hasBody, body) ==
  [method |-> method, headers |-> headers, url |-> url, hasBody |-> hasBody, body |-> body]

\* request() overriding every verb but GET
request_OverridesPost(ls, opts, segments, method, data) ==
  LET h1 == SetHeader(getHeaders(ls), "Content-Type", <<"text/json">>)
      override == method # "GET" /\ opts.method_override
      h2 == IF override THEN SetHeader(h1, "X-HTTP-Method-Override", <<method>>) ELSE h1
      m2 == IF override THEN "POST" ELSE method
      payload == getPayload(m2, data, opts.hasDataURLtoBlob)
  IN  IF m2 = "GET"
      THEN Fetch(m2, h2, <<endpoint \o segments, "?">> \o PayloadToString(payload), FALSE, NullPayload)
      ELSE Fetch(m2, h2, <<endpoint \o segments>>, TRUE, payload)

request(ls, opts, segments, method, data) ==
  LET h1 == SetHeader(getHeaders(ls), "Content-Type", <<"text/json">>)
      override == method # "GET" /\ method # "POST" /\ opts.method_override
      h2 == IF override THEN SetHeader(h1, "X-HTTP-Method-Override", <<method>>) ELSE h1
      m2 == IF override THEN "POST" ELSE method
      payload == getPayload(m2, data, opts.hasDataURLtoBlob)
  IN  IF m2 = "GET"
      THEN Fetch(m2, h2, <<endpoint \o segments, "?">> \o PayloadToString(payload), FALSE, NullPayload)
      ELSE Fetch(m2, h2, <<endpoint \o segments>>, TRUE, payload)

\* request() throws before fetch when getPayload throws
requestThrows(opts, method, data) ==
  LET override == method # "GET" /\ method # "POST" /\ opts.method_override
      m2 == IF override THEN "POST" ELSE method
  IN  PayloadThrows(m2, data, opts.hasDataURLtoBlob)

\* post(segments, data): undefined data becomes {}
post(ls, opts, segments, data) ==
  request(ls, opts, segments, "POST", IF data.t = "undefined" THEN EmptyObject ELSE data)

\* collection('auth').update(_id, data)
collectionUpdate(ls, opts, id, data) ==
  post(ls, opts, "collection/auth/" \o ToString(id), data)

(* ------------------------------- state --------------------------------- *)
VARIABLES
  currentUser,   \* auth.currentUser
  localStorage,  \* the persisted store
  now,           \* the wall clock, new Date().getTime()
  options,       \* client.options and the host's dataURLtoBlob
  pending,       \*\* promises in flight, by callback and record
  last           \* the last call: what it was, the value it was given,
                 \* whether it threw, the requests it dispatched and the
                 \* events it triggered

vars == <<currentUser, localStorage, now, options, pending, last>>

\* the callbacks Auth attaches with then(): _registerToken (register and
\* login), setCurrentUser (update), or none
PromiseKinds == {"registerToken", "setCurrentUser", "none"}
\* the _id update() can find in currentUser (0: a document without _id)
UpdateIds == {0} \cup UserIds
\* a promise in flight: its callback and, for update, the _id of the record
\* the request was made for
Promise(kind, id) == [kind |-> kind, id |-> id]
Promises == {Promise("registerToken", 0), Promise("none", 0)}
              \cup {Promise("setCurrentUser", i) : i \in UpdateIds}
NoPending == [p \in Promises |-> 0]
RECURSIVE Total(_, _)
Total(p, ks) ==
  IF ks = {} THEN 0
  ELSE LET k == CHOOSE x \in ks : TRUE IN p[k] + Total(p, ks \ {k})
Inflight == Total(pending, Promises)

Call(op, arg, threw, sent, triggered) ==
  [op |-> op, arg |-> arg, threw |-> threw, sent |-> sent, triggered |-> triggered]

\* a call with argument `arg` that dispatches one request and attaches the
\* callback of `promise`
DispatchWith(op, arg, promise, fetch) ==
  /\ Inflight < MaxInflight
  /\ pending' = [pending EXCEPT ![promise] = @ + 1]
  /\ last' = Call(op, arg, FALSE, <<fetch>>, << >>)
  /\ UNCHANGED <<currentUser, localStorage, now, options>>

Dispatch(op, promise, fetch) == DispatchWith(op, undefined, promise, fetch)

\* a call that throws before anything else happens
Throw(op) ==
  /\ last' = Call(op, undefined, TRUE, << >>, << >>)
  /\ UNCHANGED <<currentUser, localStorage, now, options, pending>>

\* new Hook.Client(options) over the store as it is at time `t`
NewClient(ls, t, opts) ==
  /\ currentUser = constructor(ls, t)
  /\ localStorage = ls
  /\ now = t
  /\ options = opts
  /\ pending = NoPending
  /\ last = Call("new", undefined, FALSE, << >>, << >>)

\* a first visit: nothing persisted, the default options
DefaultOptions == Options(FALSE, FALSE)
Init == NewClient(EmptyStore, 0, DefaultOptions)

(* ------------------------------ actions -------------------------------- *)
\* a construction that removes what an expired session persisted
Restart_Clearing ==
  LET expired == ~NumLess(now, DateGetTime(getItem(localStorage, Key(AUTH_TOKEN_EXPIRATION))))
  IN  /\ currentUser' = constructor(localStorage, now)
      /\ localStorage' = IF expired
                         THEN removeItem(removeItem(localStorage, Key(AUTH_TOKEN_KEY)), Key(AUTH_DATA_KEY))
                         ELSE localStorage
      /\ pending' = NoPending
      /\ last' = Call("new", undefined, FALSE, << >>, << >>)
      /\ UNCHANGED <<now, options>>

\* the page is reloaded: a new Client and Auth over the same store
Restart ==
  /\ currentUser' = constructor(localStorage, now)
  /\ pending' = NoPending
  /\ last' = Call("new", undefined, FALSE, << >>, << >>)
  /\ UNCHANGED <<localStorage, now, options>>

\* the page is closed and opened again at the later time t
ReopenAt(t) ==
  /\ t > now
  /\ now' = t
  /\ currentUser' = constructor(localStorage, t)
  /\ pending' = NoPending
  /\ last' = Call("new", undefined, FALSE, << >>, << >>)
  /\ UNCHANGED <<localStorage, options>>

Tick ==
  /\ now < MaxTime
  /\ now' = now + 1
  /\ last' = Call("tick", undefined, FALSE, << >>, << >>)
  /\ UNCHANGED <<currentUser, localStorage, options, pending>>

\* auth.setCurrentUser(data) called by the application
SetCurrentUser(data) ==
  LET st == setCurrentUser(currentUser, localStorage, data)
  IN  /\ currentUser' = st.currentUser
      /\ localStorage' = st.localStorage
      /\ last' = Call("setCurrentUser", data, FALSE, << >>, st.triggered)
      /\ UNCHANGED <<now, options, pending>>

Logout ==
  LET st == setCurrentUser(currentUser, localStorage, null)
  IN  /\ currentUser' = st.currentUser
      /\ localStorage' = st.localStorage
      /\ last' = Call("logout", undefined, FALSE, << >>, st.triggered)
      /\ UNCHANGED <<now, options, pending>>

Register(data) ==
  Dispatch("register", Promise("registerToken", 0), post(localStorage, options, "auth/email", data))

Login(data) ==
  Dispatch("login", Promise("registerToken", 0), post(localStorage, options, "auth/email/login", data))

\* update() without the currentUser test
Update_Unchecked(data) ==
  Dispatch("update", Promise("setCurrentUser", currentUser._id),
           collectionUpdate(localStorage, options, currentUser._id, data))

Update(data) ==
  IF ~Truthy(currentUser)
  THEN Throw("update")
  ELSE Dispatch("update", Promise("setCurrentUser", currentUser._id),
                collectionUpdate(localStorage, options, currentUser._id, data))

\* forgotPassword() that also drops the session
ForgotPassword_LogsOut(data) ==
  /\ Inflight < MaxInflight
  /\ pending' = [pending EXCEPT ![Promise("none", 0)] = @ + 1]
  /\ currentUser' = null
  /\ localStorage' = removeItem(localStorage, Key(AUTH_TOKEN_KEY))
  /\ last' = Call("forgotPassword", undefined, FALSE,
                  <<post(localStorage, options, "auth/email/forgotPassword", data)>>, << >>)
  /\ UNCHANGED <<now, options>>

ForgotPassword(data) ==
  Dispatch("forgotPassword", Promise("none", 0),
           post(localStorage, options, "auth/email/forgotPassword", data))

\* the argument of resetPassword: undefined, a bare string, or an object
\* whose token and password are missing, a string or a number
MemberKinds == {"missing", "string", "number"}
ResetArg(tag, tok, pw) == [t |-> tag, token |-> tok, password |-> pw]
ResetArgs == {ResetArg("undefined", "missing", "missing"), ResetArg("string", "missing", "missing")}
               \cup {ResetArg("object", tok, pw) : tok \in MemberKinds, pw \in MemberKinds}
ResetFields(arg) ==
  (IF arg.token = "missing" THEN << >> ELSE <<Field("scalar", 0)>>)
    \o (IF arg.password = "missing" THEN << >> ELSE <<Field("scalar", 0)>>)

\* resetPassword() without the password test
ResetPassword_TokenOnly(arg) ==
  IF arg.t = "undefined" \/ arg.token # "string"
  THEN Throw("resetPassword")
  ELSE Dispatch("resetPassword", Promise("none", 0),
                post(localStorage, options, "auth/email/resetPassword",
                     ReqData("object", ResetFields(arg))))

ResetPassword(arg) ==
  IF arg.t = "undefined" \/ arg.token # "string" \/ arg.password # "string"
  THEN Throw("resetPassword")
  ELSE Dispatch("resetPassword", Promise("none", 0),
                post(localStorage, options, "auth/email/resetPassword",
                     ReqData("object", ResetFields(arg))))

\* a boolean as a JS value
Bool(b) == IF b THEN Prim("true") ELSE Prim("false")

\* auth.isLogged() and auth.getToken() called by the application; last.arg
\* keeps what isLogged() returned and whether getToken() returned a token
IsLogged ==
  /\ last' = Call("isLogged", Bool(isLogged(currentUser)), FALSE, << >>, << >>)
  /\ UNCHANGED <<currentUser, localStorage, now, options, pending>>

GetToken ==
  /\ last' = Call("getToken", Bool(getToken(localStorage).present), FALSE, << >>, << >>)
  /\ UNCHANGED <<currentUser, localStorage, now, options, pending>>

\* client.get / post / put / remove called by the application
ClientMethod(method) ==
  IF method = "GET" THEN "get"
  ELSE IF method = "POST" THEN "post"
  ELSE IF method = "PUT" THEN "put"
  ELSE "remove"

ClientRequest(method, data) ==
  LET d == IF method = "POST" /\ data.t = "undefined" THEN EmptyObject ELSE data
  IN  IF requestThrows(options, method, d)
      THEN Throw(ClientMethod(method))
      ELSE DispatchWith(ClientMethod(method), data, Promise("none", 0),
                    request(localStorage, options, "collection/posts", method, d))

\* what a server can answer to register / login and to update
AuthBodies == TokenBodies \cup Docs \cup {ErrorBody, null}
\* the answer to an update of record i is that record, an error body or null
UpdateBodies(i) == {d \in Docs : d._id = i} \cup {ErrorBody, null}

\* fetch(...).then(res => res.json()) settles: `promise` is fulfilled with
\* `body` and its callback runs
Resolve(promise, body) ==
  LET kind == promise.kind
      st == IF kind = "registerToken"
            THEN registerToken(currentUser, localStorage, body)
            ELSE IF kind = "setCurrentUser"
            THEN setCurrentUser(currentUser, localStorage, body)
            ELSE AuthSt(currentUser, localStorage, << >>)
  IN  /\ pending[promise] > 0
      /\ pending' = [pending EXCEPT ![promise] = @ - 1]
      /\ currentUser' = st.currentUser
      /\ localStorage' = st.localStorage
      /\ last' = Call("resolve-" \o kind, body, FALSE, << >>, st.triggered)
      /\ UNCHANGED <<now, options>>

\* the exchange fails or the body is not JSON: the promise is rejected and
\* no callback of Auth runs
Reject(promise) ==
  /\ pending[promise] > 0
  /\ pending' = [pending EXCEPT ![promise] = @ - 1]
  /\ last' = Call("reject-" \o promise.kind, undefined, FALSE, << >>, << >>)
  /\ UNCHANGED <<currentUser, localStorage, now, options>>

Next ==
  \/ Restart
  \/ \E t \in 1 .. MaxTime : ReopenAt(t)
  \/ Tick
  \/ \E d \in FalsyValues \cup Docs : SetCurrentUser(d)
  \/ Logout
  \/ \E d \in SimpleData : Register(d)
  \/ \E d \in SimpleData : Login(d)
  \/ \E d \in SimpleData : Update(d)
  \/ \E d \in SimpleData : ForgotPassword(d)
  \/ \E a \in ResetArgs : ResetPassword(a)
  \/ IsLogged
  \/ GetToken
  \/ \E m \in Methods : ClientRequest(m, Scalars)
  \/ \E b \in AuthBodies : Resolve(Promise("registerToken", 0), b)
  \/ \E i \in UpdateIds : \E b \in UpdateBodies(i) : Resolve(Promise("setCurrentUser", i), b)
  \/ \E b \in {ErrorBody, null} : Resolve(Promise("none", 0), b)
  \/ \E p \in Promises : Reject(p)

Spec == Init /\ [][Next]_vars

(* ------------------- the request pipeline on its own ------------------- *)
\* a client built with any options, over a fresh store or over the store a
\* login left, making requests one at a time with any data
LoggedStore == registerToken(null, EmptyStore, Doc(1, 0, TokenObj("t1", MaxTime))).localStorage
InitPipeline ==
  \E opts \in AllOptions, ls \in {EmptyStore, LoggedStore} : NewClient(ls, 0, opts)

NextPipeline ==
  \/ Inflight = 0 /\ \E m \in Methods, d \in AllData : ClientRequest(m, d)
  \/ \E b \in {ErrorBody, null} : Resolve(Promise("none", 0), b)
  \/ Reject(Promise("none", 0))

SpecPipeline == InitPipeline /\ [][NextPipeline]_vars

(* ------------- the session life cycle without direct calls ------------- *)
\* register / login / update / logout, their answers, reloads and the clock
NextSession ==
  \/ Restart
  \/ \E t \in 1 .. MaxTime : ReopenAt(t)
  \/ Tick
  \/ Logout
  \/ \E d \in SimpleData : Register(d)
  \/ \E d \in SimpleData : Login(d)
  \/ \E d \in SimpleData : Update(d)
  \/ \E b \in AuthBodies : Resolve(Promise("registerToken", 0), b)
  \/ \E i \in UpdateIds : \E b \in UpdateBodies(i) : Resolve(Promise("setCurrentUser", i), b)
  \/ \E p \in Promises \ {Promise("none", 0)} : Reject(p)

SpecSession == Init /\ [][NextSession]_vars

(* ============================== claims ================================= *)
DataItem == getItem(localStorage, Key(AUTH_DATA_KEY))
ExpirationItem == getItem(localStorage, Key(AUTH_TOKEN_EXPIRATION))
\* the persisted expiration is the string of the instant E
ExpiresAt(E) == ExpirationItem = Str(DateString(E))
JSONContentType == <<"Content-Type", <<"text/json">>>>

\* C1: for every value d, falsy ones included, isLogged() after
\* setCurrentUser(d) is true exactly when d is truthy.
C1_LoggedIffTruthy ==
  last.op = "setCurrentUser" => (isLogged(currentUser) <=> Truthy(last.arg))

\* C2: when a register or login answer {...fields, token: {token: T,
\* expire_at: E}} is processed, getToken() is T, the persisted expiration is
\* E, and the persisted document and the current user are the remaining
\* fields, without `token`.
C2_TokenRoundTrip ==
  (last.op = "resolve-registerToken" /\ last.arg \in TokenBodies) =>
    LET fields == Doc(last.arg._id, last.arg.score, NoToken)
    IN  /\ getToken(localStorage) = Str(<<last.arg.token.token>>)
        /\ ExpiresAt(last.arg.token.expire_at)
        /\ currentUser = fields
        /\ DataItem = Str(JSONStringifyDoc(fields))
        /\ ~JSONParseDoc(DataItem.v).token.present

C2_Witness ==
  /\ last.op = "resolve-registerToken"
  /\ last.arg = Doc(2, 0, TokenObj("t2", MaxTime))
  /\ getToken(localStorage) = Str(<<"t2">>)

\* C3: a new Auth over a store with a user document and an expiration E has
\* no current user when now >= E and the persisted document as current user
\* when now < E; without a document or without an expiration it has none.
C3_ExpirationBoundary ==
  last.op = "new" =>
    /\ \A E \in ExpireAts, d \in Docs \cup {ErrorBody} :
         (DataItem = Str(JSONStringifyDoc(d)) /\ ExpiresAt(E)) =>
           /\ now >= E => currentUser = null
           /\ now < E => currentUser = d
    /\ (~DataItem.present \/ ~ExpirationItem.present) => currentUser = null

C3_Witness ==
  /\ last.op = "new"
  /\ DataItem.present
  /\ ExpiresAt(now)
  /\ currentUser = null

\* the envelope of the request the last call dispatched
Sent == last.sent[1]
HasBinaryField(d) ==
  d.t = "object" /\ \E i \in 1 .. Len(d.fields) : d.fields[i].kind \in {"fileinput", "canvas", "blob"}
OnlyScalars(d) ==
  d.t = "object" /\ \A i \in 1 .. Len(d.fields) : d.fields[i].kind = "scalar"

\* C4: a non-GET request has a multipart body exactly when a field of data
\* resolves to file content; a multipart body never goes with the text/json
\* Content-Type, and data of scalars only is never multipart and is sent as
\* text/json.
C4_MultipartTrigger ==
  [][~last'.threw => \A m \in Methods, d \in AllData :
       (last'.op = ClientMethod(m) /\ ClientRequest(m, d)) =>
         LET env == last'.sent[1]
         IN  /\ m # "GET" => ((env.body.kind = "formdata") <=> HasBinaryField(d))
             /\ env.body.kind = "formdata" => JSONContentType \notin env.headers
             /\ OnlyScalars(d) =>
                  (env.body.kind # "formdata" /\ JSONContentType \in env.headers)]_vars

\* the verb of client.get / post / put / remove
Verb(op) ==
  IF op = "get" THEN "GET"
  ELSE IF op = "post" THEN "POST"
  ELSE IF op = "put" THEN "PUT"
  ELSE "DELETE"

\* C5: with method_override on, PUT and DELETE go out as POST with the
\* header X-HTTP-Method-Override naming the verb; GET and POST are never
\* rewritten and never carry the header; with it off every verb goes out
\* unchanged and without the header.
C5_MethodOverride ==
  (last.op \in {"get", "post", "put", "remove"} /\ ~last.threw) =>
    IF options.method_override /\ last.op \in {"put", "remove"}
    THEN /\ Sent.method = "POST"
         /\ <<"X-HTTP-Method-Override", <<Verb(last.op)>>>> \in Sent.headers
    ELSE /\ Sent.method = Verb(last.op)
         /\ ~HasHeader(Sent.headers, "X-HTTP-Method-Override")

C5_Witness ==
  /\ options.method_override
  /\ last.op = "remove"
  /\ ~last.threw
  /\ Sent.method = "POST"
  /\ <<"X-HTTP-Method-Override", <<"DELETE">>>> \in Sent.headers

\* C6: update(data) without a current user throws, dispatches no request,
\* triggers no event and leaves the current user and the store as they were.
C6_UpdateUnauthenticated ==
  [][(currentUser = null /\ last'.op = "update") => \A d \in SimpleData :
       Update(d) =>
         /\ last'.threw
         /\ last'.sent = << >>
         /\ last'.triggered = << >>
         /\ pending' = pending
         /\ currentUser' = currentUser
         /\ localStorage' = localStorage]_vars

\* thrown by an Auth whose construction found the session expired
C6_Witness ==
  /\ last.op = "update"
  /\ last.threw
  /\ currentUser = null
  /\ DataItem.present

C8_RequestHeaders ==
  /\ \A i \in 1 .. Len(last.sent) :
       /\ <<"X-App-Id", <<app_id>>>> \in last.sent[i].headers
       /\ <<"X-App-Key", <<key>>>> \in last.sent[i].headers
       /\ HasHeader(last.sent[i].headers, "X-Auth-Token") <=> getToken(localStorage).present
       /\ getToken(localStorage).present =>
            HeaderValue(last.sent[i].headers, "X-Auth-Token") = getToken(localStorage).v
  /\ last.op = "logout" => ~getToken(localStorage).present

C8_Witness ==
  /\ last.sent # << >>
  /\ <<"X-Auth-Token", <<"t2">>>> \in Sent.headers

\* the persisted expiration has passed
Expired == ExpirationItem.present /\ ~NumLess(now, DateGetTime(ExpirationItem))

\* C9 as claimed: after a construction that finds the persisted expiration
\* passed, the persisted token and user document are gone.
C9_ExpiredSessionCleared ==
  (last.op = "new" /\ Expired) =>
    (~getToken(localStorage).present /\ ~DataItem.present)

\* C9 as amended: a construction that finds the persisted expiration passed
\* leaves the current user null and the store as it was, token and user
\* document included.
C9_ExpiredSessionKept ==
  [][(last'.op = "new" /\ Expired /\ Restart) =>
       /\ currentUser' = null
       /\ getToken(localStorage') = getToken(localStorage)
       /\ getItem(localStorage', Key(AUTH_DATA_KEY)) = DataItem
       /\ getItem(localStorage', Key(AUTH_TOKEN_EXPIRATION)) = ExpirationItem]_vars

C9_Witness ==
  /\ last.op = "new"
  /\ Expired
  /\ currentUser = null
  /\ getToken(localStorage).present
  /\ DataItem.present

\* C10: in every state isLogged() is true only if a token is persisted and
\* now < the persisted expire_at.
C10_SessionValidity ==
  isLogged(currentUser) =>
    (getToken(localStorage).present /\ NumLess(now, DateGetTime(ExpirationItem)))

\* C11: logout() is setCurrentUser(null): right after it the current user is
\* null, isLogged() is false, getToken() is null and no user document is
\* persisted, whatever the state it was called in.
C11_LogoutClears ==
  last.op = "logout" =>
    LET st == setCurrentUser(last.triggered[1].payload, localStorage, null)
    IN  /\ currentUser = null
        /\ ~isLogged(currentUser)
        /\ ~getToken(localStorage).present
        /\ ~DataItem.present
        /\ st.currentUser = currentUser
        /\ st.localStorage = localStorage

\* logout() was called on a logged session holding a token
C11_Witness ==
  /\ last.op = "logout"
  /\ Len(last.triggered) = 1
  /\ last.triggered[1].payload = Doc(1, 0, NoToken)
  /\ ExpirationItem.present
  /\ ~getToken(localStorage).present

\* the operations that reach setCurrentUser, and the value they pass to it
\* (register / login answers only when they carry a token)
Strip(data) == IF Truthy(data) THEN [data EXCEPT !.token = NoToken] ELSE data
HasToken(data) == data.t \notin {"null", "undefined"} /\ data.token.present
CallsSetCurrentUser(c) ==
  \/ c.op \in {"setCurrentUser", "logout", "resolve-setCurrentUser"}
  \/ c.op = "resolve-registerToken" /\ HasToken(c.arg)
Passed(c) ==
  IF c.op = "logout" THEN null
  ELSE IF c.op = "resolve-registerToken" THEN Strip(c.arg)
  ELSE c.arg

\* C12: every setCurrentUser(truthy) triggers exactly one 'login' whose
\* payload is the new document, once the document is persisted and set in
\* memory; every setCurrentUser(falsy) triggers exactly one 'logout' whose
\* payload is the current user held just before the call; no other operation
\* triggers either event.
C12_LifecycleEvents ==
  [][LET c == last'
         ev == c.triggered
     IN  IF CallsSetCurrentUser(c)
         THEN /\ Len(ev) = 1
              /\ IF Truthy(Passed(c))
                 THEN /\ ev[1].name = "login"
                      /\ ev[1].payload = Passed(c)
                      /\ ev[1].seen.currentUser = Passed(c)
                      /\ ev[1].seen.stored = Str(JSONStringifyDoc(Passed(c)))
                 ELSE /\ ev[1].name = "logout"
                      /\ ev[1].payload = currentUser
         ELSE ev = << >>]_vars

\* a login answer with a token was processed: the listener of 'login' was
\* handed the new document and found it already persisted and in memory
C12_Witness ==
  /\ last.op = "resolve-registerToken"
  /\ Len(last.triggered) = 1
  /\ last.triggered[1].name = "login"
  /\ last.triggered[1].payload = Doc(2, 0, NoToken)
  /\ last.triggered[1].seen = Seen(currentUser, localStorage)

\* how the deferred of a call ended: fulfilled (then-callbacks ran with the
\* body) or rejected
Fulfilled(c, kind) == c.op = "resolve-" \o kind
Rejected(c, kind) == c.op = "reject-" \o kind
Settled(c, kind) == Fulfilled(c, kind) \/ Rejected(c, kind)
AuthStateUnchanged == currentUser' = currentUser /\ localStorage' = localStorage

\* C13: when the server answers register / login with a failure (non-success
\* status, error body), the deferred is rejected with that body, the current
\* user and the persisted token, expiration and document are unchanged and
\* no event is triggered; the call sent exactly one request and the answer
\* sends none.
C13_ServerFailureRejects ==
  [][/\ (Settled(last', "registerToken") /\ last'.arg = ErrorBody) =>
          /\ Rejected(last', "registerToken")
          /\ AuthStateUnchanged
          /\ last'.triggered = << >>
          /\ last'.sent = << >>
     /\ (last'.op \in {"register", "login"} /\ ~last'.threw) => Len(last'.sent) = 1]_vars

\* an answer to register, login, update or another request was processed
IsAnswer(c) == \E k \in PromiseKinds : Settled(c, k)

\* C14: with several login / register / update calls in flight, whatever the
\* order in which their answers are processed, each answer that reaches
\* setCurrentUser replaces the current user and the persisted document by
\* its own, and every other answer leaves both alone: after all answers the
\* two are those of the answer processed last by setCurrentUser.
C14_LastWriteWins ==
  [][IsAnswer(last') =>
       IF CallsSetCurrentUser(last')
       THEN /\ currentUser' = Passed(last')
            /\ DataItem' = IF Truthy(Passed(last'))
                           THEN Str(JSONStringifyDoc(Passed(last')))
                           ELSE NoItem
       ELSE /\ currentUser' = currentUser
            /\ DataItem' = DataItem]_vars

\* an update answer was processed while a login or register call was still
\* in flight, and its document is the current and the persisted one
C14_Witness ==
  /\ last.op = "resolve-setCurrentUser"
  /\ last.arg \in Docs
  /\ pending[Promise("registerToken", 0)] > 0
  /\ currentUser = last.arg
  /\ DataItem = Str(JSONStringifyDoc(last.arg))

\* C19: under any interleaving of register / login / update / logout and
\* their answers, whenever a token and a user document are both persisted,
\* the document is that of the user whose answer supplied the token: the
\* late answer to an update of an earlier session never replaces the
\* document of a newer session.
C19_TokenIdentityPaired ==
  \A d \in Docs :
    (getToken(localStorage).present /\ DataItem = Str(JSONStringifyDoc(d))) =>
      getToken(localStorage) = Str(<<TokenFor(d._id)>>)

\* data from which no payload is built: absent, or an empty object
NoPayloadData(d) == ~DataTruthy(d) \/ d = EmptyObject

\* C15: a GET carries its serialized payload, percent-encoded, as the query
\* string, and only when there is one: with no data or {} it goes to exactly
\* the endpoint plus segments with nothing appended. Every other verb sends
\* the payload as the body, {} becoming a null body.
C15_RequestDispatch ==
  (last.op \in {"get", "post", "put", "remove"} /\ ~last.threw) =>
    LET d == last.arg
        base == endpoint \o "collection/posts"
        json == JSONStringify(d)
    IN  IF last.op = "get"
        THEN /\ ~Sent.hasBody
             /\ NoPayloadData(d) => Sent.url = <<base>>
             /\ (OnlyScalars(d) /\ ~NoPayloadData(d)) =>
                  Sent.url = <<base, "?">> \o encodeURIComponent(json)
        ELSE /\ Sent.hasBody
             /\ Sent.url = <<base>>
             /\ NoPayloadData(d) => Sent.body = NullPayload
             /\ (OnlyScalars(d) /\ ~NoPayloadData(d)) =>
                  Sent.body = Payload("string", json, << >>)

\* the value that follows the member `name` in a JSON text
MemberValue(text, name) ==
  text[(CHOOSE j \in 1 .. Len(text) : text[j] = name) + 1]
\* a request whose payload is JSON text: the body, or the query of a GET
SentJSON ==
  /\ last.op \in {"get", "post", "put", "remove"}
  /\ ~last.threw
  /\ last.arg.t = "object"
  /\ IF last.op = "get" THEN Len(Sent.url) > 3 ELSE Sent.body.kind = "string"
SentText == IF last.op = "get" THEN SubSeq(Sent.url, 3, Len(Sent.url)) ELSE Sent.body.text
DateFields(d) == {i \in 1 .. Len(d.fields) : d.fields[i].kind = "date"}

\* C16 as stated: in a JSON payload a date of t milliseconds is the integer
\* t div 1000 (whole seconds, fraction dropped), for every t >= 0, never a
\* string.
C16_DateSecondsFloor ==
  SentJSON =>
    \A i \in DateFields(last.arg) :
      MemberValue(SentText, FieldName(i)) = ToString(last.arg.fields[i].ms \div 1000)

\* C16, amended: the date is the integer number of seconds nearest to t
\* milliseconds, a half rounding up: the n with 1000n - 500 <= t < 1000n +
\* 500; it is a bare number, never a string.
C16_DateSecondsRounded ==
  SentJSON =>
    \A i \in DateFields(last.arg) :
      LET t == last.arg.fields[i].ms
          n == CHOOSE k \in 0 .. t : 1000 * k - 500 <= t /\ t < 1000 * k + 500
      IN  MemberValue(SentText, FieldName(i)) = ToString(n)

\* a date of 500 ms went out in a JSON body as 1
C16_Witness ==
  /\ SentJSON
  /\ last.op = "post"
  /\ last.arg.fields = <<Field("date", 500)>>
  /\ Sent.body.text = <<"{", "f1", "1", "}">>

\* C17: processing a register / login answer that has no token member
\* changes neither the current user nor the persisted token, expiration and
\* document, and triggers no event.
C17_NoTokenNoChange ==
  [][(Fulfilled(last', "registerToken") /\ ~HasToken(last'.arg)) =>
       /\ AuthStateUnchanged
       /\ last'.triggered = << >>]_vars

\* an answer naming another document, without token, was processed on a
\* logged session, which is still there
C17_Witness ==
  /\ last.op = "resolve-registerToken"
  /\ last.arg \in Docs
  /\ isLogged(currentUser)
  /\ currentUser # last.arg
  /\ getToken(localStorage).present

\* C18: a new Auth over the same store, built at any later time, is logged
\* out when the last transition was logout(); and holds the last document
\* given to setCurrentUser when the last transition was a register / login
\* answer with a token or an update answer and the time of construction is
\* before the persisted expire_at.
C18_RestartRestores ==
  [][last'.op = "new" =>
       /\ last.op = "logout" => (currentUser' = null /\ ~isLogged(currentUser'))
       /\ (/\ last.op \in {"resolve-registerToken", "resolve-setCurrentUser"}
           /\ CallsSetCurrentUser(last)
           /\ Truthy(Passed(last))
           /\ NumLess(now', DateGetTime(ExpirationItem))) =>
            currentUser' = Passed(last)]_vars

\* a construction right after a token-bearing answer, before its expire_at:
\* the answer's document is the current user again
C18_Witness ==
  /\ last.op = "new"
  /\ currentUser = Doc(2, 0, NoToken)
  /\ getToken(localStorage) = Str(<<TokenFor(2)>>)
  /\ ExpiresAt(MaxTime)
  /\ now < MaxTime

\* the operations that only read the session or only talk to the server,
\* and the answers to them
ReadOnlyOps == {"forgotPassword", "resetPassword", "isLogged", "getToken",
                "get", "post", "put", "remove", "resolve-none", "reject-none"}

\* C20: forgotPassword, resetPassword, isLogged, getToken and the generic
\* get / post / put / remove, when called and when answered, with success or
\* failure, change neither the current user nor the three persisted entries
\* and trigger no event; within one Auth the current user changes only
\* through setCurrentUser, logout, and the update and token-registration
\* answers.
C20_ReadOnlyOperations ==
  [][/\ last'.op \in ReadOnlyOps =>
          (AuthStateUnchanged /\ last'.triggered = << >>)
     /\ (currentUser' # currentUser /\ last'.op # "new") =>
          CallsSetCurrentUser(last')]_vars

\* forgotPassword() was called on a logged session, which is intact
C20_Witness ==
  /\ last.op = "forgotPassword"
  /\ ~last.threw
  /\ isLogged(currentUser)
  /\ getToken(localStorage).present
  /\ DataItem = Str(JSONStringifyDoc(currentUser))

====
